---- MODULE Spec2Model ----
(***************************************************************************)
(* Model of the query-planning and hybrid-retrieval pipeline of            *)
(* backend/scripts/persistent-rag-cli.ts (class PersistentKokkaiRAGCLI)    *)
(* and of QueryPlanningService.createQueryPlan.                            *)
(*                                                                         *)
(* Numbers: distances, scores and ceilings are in hundredths               *)
(* (0.8 is 80); confidence is in tenths (0.5 is 5).                        *)
(* Strings: the Japanese literals of the source are written in ASCII.      *)
(***************************************************************************)
EXTENDS Integers, Sequences, FiniteSets, TLC

VARIABLES
    pc,             \* position of main() / search() in the pipeline
    question,       \* the query string handed to search()
    topK,           \* the topK argument of search() / searchWithPlan()
    response,       \* the text the completion service returns to the planner
    plan,           \* the QueryPlan built by the planner
    idx,            \* for-of position in plan.subqueries (0: not started)
    expandedQuery,  \* the text handed to getTextEmbedding
    candidateIds,   \* result of applyStructuredFilter for the current sub-query
    allResults,     \* searchWithPlan's allResults
    subResults,     \* history: subqueryResults of every iteration, in order
    uniqueResults,  \* the list searchWithPlan returns
    answer,         \* the string generateAnswer returns
    calls,          \* number of requests issued to each collaborator
    filterLog,      \* history: one entry per applyStructuredFilter call
    queries,        \* history: one entry per similarity query issued
    err             \* "" or the failure that ended the run

vars == << pc, question, topK, response, plan, idx, expandedQuery, candidateIds,
           allResults, subResults, uniqueResults, answer, calls, filterLog,
           queries, err >>

(***************************************************************************)
(* Bounds of the model.                                                    *)
(***************************************************************************)
\* longest subqueries list a pipeline run is started with
MaxSubqueries == 2
\* largest topK a pipeline run is started with
MaxTopK == 2
\* longest subqueries list the planner alone is fed
MaxPlanSubqueries == 4

(***************************************************************************)
(* JavaScript / JSON values.  A value is a record [tag, num, items]:       *)
(* undefined, null, a number, a string (items: its characters), an array   *)
(* of strings (items: its elements) or an object (items: its values).      *)
(***************************************************************************)
JUndefined == [tag |-> "undefined", num |-> 0, items |-> << >>]
JNull == [tag |-> "null", num |-> 0, items |-> << >>]
JNum(n) == [tag |-> "num", num |-> n, items |-> << >>]
JStr(chars) == [tag |-> "str", num |-> 0, items |-> chars]
JArr(elems) == [tag |-> "arr", num |-> 0, items |-> elems]
JObj(vals) == [tag |-> "obj", num |-> 0, items |-> vals]

\* ToBoolean: undefined, null, 0 and "" are falsy; every array and object is truthy
Truthy(v) ==
    CASE v.tag \in {"undefined", "null"} -> FALSE
      [] v.tag = "num" -> v.num # 0
      [] v.tag = "str" -> v.items # << >>
      [] OTHER -> TRUE

\* a || b
OrElse(a, b) == IF Truthy(a) THEN a ELSE b

\* entities?.field : undefined when entities is undefined or null
OptField(ent, field) ==
    IF ent.tag \in {"undefined", "null"} THEN JUndefined ELSE ent[field]

(***************************************************************************)
(* Completion responses of the planner.  kind: "invalid" (not JSON text),  *)
(* "empty" (no text), "null" (the JSON null), "scalar" (a JSON number,     *)
(* string, boolean or array: every property read gives undefined) or       *)
(* "object" with the five fields, each possibly undefined.                 *)
(***************************************************************************)
NoEntities(tag) ==
    [tag |-> tag, speakers |-> JUndefined, parties |-> JUndefined,
     topics |-> JUndefined, meetings |-> JUndefined, positions |-> JUndefined,
     dateRange |-> JUndefined]

\* an entities object with the given speakers, parties, topics and dateRange
Entities(sp, pa, tp, dr) ==
    [NoEntities("obj") EXCEPT !.speakers = sp, !.parties = pa, !.topics = tp,
                              !.dateRange = dr]

NonObject(kind) ==
    [kind |-> kind, subqueries |-> JUndefined, entities |-> NoEntities("undefined"),
     enabledStrategies |-> JUndefined, confidence |-> JUndefined,
     estimatedComplexity |-> JUndefined]

ObjectResponses(subqs, ents, strats, confs, cxs) ==
    { [kind |-> "object", subqueries |-> s, entities |-> e, enabledStrategies |-> st,
       confidence |-> c, estimatedComplexity |-> x] :
         s \in subqs, e \in ents, st \in strats, c \in confs, x \in cxs }

SubqueryNames == << "q1", "q2", "q3", "q4", "q5", "q6" >>

\* subqueries arrays of 0..n elements
SubqueryLists(n) == { JArr(SubSeq(SubqueryNames, 1, k)) : k \in 0..n }

DateRange == JObj(<< "2024-01-01", "2024-12-31" >>)

\* responses a pipeline run is started with
PipelineResponses ==
    { NonObject("invalid"), NonObject("null") }
    \cup ObjectResponses(
            {JUndefined} \cup SubqueryLists(MaxSubqueries),
            { NoEntities("undefined"),
              Entities(JArr(<< "Kishida" >>), JUndefined, JArr(<< "defense" >>), JUndefined) },
            { JUndefined, JArr(<< "vector", "structured" >>) },
            { JUndefined },
            { JUndefined })

\* responses the planner alone is fed
PlannerResponses ==
    { NonObject(k) : k \in {"invalid", "empty", "null", "scalar"} }
    \cup ObjectResponses(
            {JUndefined, JNum(7), JStr(<< "a", "b" >>)} \cup SubqueryLists(MaxPlanSubqueries),
            { NoEntities("undefined"), NoEntities("null"), NoEntities("obj"),
              Entities(JArr(<< "Kishida" >>), JArr(<< >>), JArr(<< "defense" >>), DateRange) },
            { JUndefined, JArr(<< >>), JArr(<< "vector", "structured" >>),
              JStr(<< "v" >>), JNum(1) },
            { JUndefined, JNum(0), JNum(8), JNum(15), JStr(<< "h", "i" >>) },
            { JUndefined, JNum(3), JNum(9) })

(***************************************************************************)
(* 1. Planner: planKokkaiQuery / createQueryPlan.                          *)
(***************************************************************************)
\* confidence: planData.confidence || 0.5, in tenths
DefaultConfidence == 5
\* estimatedComplexity: planData.estimatedComplexity || 2
DefaultComplexity == 2

\* mutant: the parse error is swallowed and the defaults are used
JsonParseNeverThrows(resp) == FALSE

\* JSON.parse(planText) throws a SyntaxError
JsonParseThrows(resp) == resp.kind \in {"invalid", "empty"}

\* the "QueryPlan形式に変換" object literal
NormalizePlan(q, planData) ==
    [originalQuestion |-> q,
     subqueries |-> OrElse(planData.subqueries, JArr(<< q >>)),
     entities |->
        [speakers |-> OrElse(OptField(planData.entities, "speakers"), JArr(<< >>)),
         parties |-> OrElse(OptField(planData.entities, "parties"), JArr(<< >>)),
         topics |-> OrElse(OptField(planData.entities, "topics"), JArr(<< >>)),
         meetings |-> OrElse(OptField(planData.entities, "meetings"), JArr(<< >>)),
         positions |-> OrElse(OptField(planData.entities, "positions"), JArr(<< >>)),
         dateRange |-> OptField(planData.entities, "dateRange")],
     enabledStrategies |-> OrElse(planData.enabledStrategies, JArr(<< "vector" >>)),
     confidence |-> OrElse(planData.confidence, JNum(DefaultConfidence)),
     estimatedComplexity |-> OrElse(planData.estimatedComplexity, JNum(DefaultComplexity))]

\* a TypeError is raised while the plan is built or logged: a property of null is
\* read, enabledStrategies has no join(), or confidence has no toFixed()
PlanTypeError(resp) ==
    \/ resp.kind = "null"
    \/ NormalizePlan("", resp).enabledStrategies.tag # "arr"
    \/ NormalizePlan("", resp).confidence.tag # "num"

\* the plan variable before the planner has returned
NoPlan == NormalizePlan("", NonObject("scalar"))

NoCalls == [llm |-> 0, embed |-> 0, filter |-> 0, similarity |-> 0]

\* the planner's try block: the completion request, the parse, the plan; its
\* catch logs and rethrows
PlannerOutcome(noText) ==
    /\ calls' = [calls EXCEPT !.llm = @ + 1]
    /\ \/ /\ pc' = "error" /\ err' = "CompletionError" /\ plan' = plan   \* request fails
       \/ /\ noText
          /\ pc' = "error" /\ err' = "NoText" /\ plan' = plan
       \/ /\ ~noText /\ JsonParseThrows(response)
          /\ pc' = "error" /\ err' = "PlanParseError" /\ plan' = plan
       \/ /\ ~noText /\ ~JsonParseThrows(response) /\ PlanTypeError(response)
          /\ pc' = "error" /\ err' = "PlanTypeError" /\ plan' = plan
       \/ /\ ~noText /\ ~JsonParseThrows(response) /\ ~PlanTypeError(response)
          /\ pc' = "loop" /\ err' = err
          /\ plan' = NormalizePlan(question, response)
    /\ UNCHANGED << question, topK, response, idx, expandedQuery, candidateIds,
                    allResults, subResults, uniqueResults, answer, filterLog, queries >>

\* PersistentKokkaiRAGCLI.planKokkaiQuery
planKokkaiQuery ==
    /\ pc = "plan"
    /\ PlannerOutcome(FALSE)

\* QueryPlanningService.createQueryPlan: as planKokkaiQuery, after the check for
\* an empty completion text
createQueryPlan ==
    /\ pc = "plan"
    /\ PlannerOutcome(response.kind = "empty")

\* the state when main() calls search(): initialize() has set Settings.llm,
\* Settings.embedModel and the pool; response is the text the completion service
\* holds ready for the planner
InitWith(responses) ==
    /\ pc = "plan"
    /\ question = "Q"
    /\ topK \in 0..MaxTopK
    /\ response \in responses
    /\ plan = NoPlan
    /\ idx = 0
    /\ expandedQuery = << >>
    /\ candidateIds = << >>
    /\ allResults = << >>
    /\ subResults = << >>
    /\ uniqueResults = << >>
    /\ answer = << >>
    /\ calls = NoCalls
    /\ filterLog = << >>
    /\ queries = << >>
    /\ err = ""

\* the planner alone, on every shape of response
InitPlan == InitWith(PlannerResponses)

NextPlan == planKokkaiQuery \/ createQueryPlan

SpecPlan == InitPlan /\ [][NextPlan]_vars

(***************************************************************************)
(* The store: table kokkai_speech_embeddings, one row per speech.  A NULL  *)
(* column is the string Null.  The embedding, and so each row's distance   *)
(* to the query vector, is outside the model: every distance assignment    *)
(* is possible.                                                            *)
(***************************************************************************)
SpeechIds == { "S1", "S2", "S3" }

Null == "<NULL>"

\* the descriptive columns of the row of speech id
CorpusRow(id) ==
    IF id = "S1"
    THEN [speech_id |-> id, speaker |-> "Kishida", speaker_group |-> "LDP",
          date |-> "2024-03-01", meeting_name |-> "Budget", speech_text |-> "long",
          speech_url |-> "https://kokkai.ndl.go.jp/txt/1"]
    ELSE IF id = "S2"
    THEN [speech_id |-> id, speaker |-> Null, speaker_group |-> Null, date |-> Null,
          meeting_name |-> Null, speech_text |-> Null, speech_url |-> Null]
    ELSE [speech_id |-> id, speaker |-> "Edano", speaker_group |-> "", date |-> "2024-05-20",
          meeting_name |-> "Audit", speech_text |-> "short",
          speech_url |-> "https://kokkai.ndl.go.jp/txt/3"]

\* embedding <=> $1, in hundredths
Distances == { 10, 65, 75 }

\* the permutations of a finite set, as sequences
Perms(S) ==
    { f \in [1..Cardinality(S) -> S] : \A a, b \in 1..Cardinality(S) : a # b => f[a] # f[b] }

Min(a, b) == IF a <= b THEN a ELSE b

\* WHERE [speech_id = ANY(ids) AND] embedding <=> $1 < ceiling
\* ORDER BY embedding <=> $1 LIMIT limit : the possible row lists, each row with
\* its similarity_score 1 - distance
SimilarityRows(dist, mode, limit) ==
    LET eligible == { id \in SpeechIds :
                        /\ dist[id] < mode.ceiling
                        /\ mode.restricted => \E k \in DOMAIN mode.ids : mode.ids[k] = id }
        ordered == { f \in Perms(eligible) :
                        \A a, b \in DOMAIN f : a < b => dist[f[a]] <= dist[f[b]] }
    IN  { [k \in 1..Min(limit, Len(f)) |->
              [row |-> CorpusRow(f[k]), similarity_score |-> 100 - dist[f[k]]]] : f \in ordered }

\* SELECT DISTINCT e.speech_id ... LIMIT 1000 : the possible id lists
FilterLimit == 1000

FilterRows ==
    { ids \in { << >>, << "S1" >>, << "S3", "S1" >> } : Len(ids) <= FilterLimit }

(***************************************************************************)
(* 2. Structured filter: applyStructuredFilter.                            *)
(***************************************************************************)
\* the conditions array built from the entities
Conditions(entities) ==
    (IF Truthy(entities.speakers) /\ Len(entities.speakers.items) > 0
        THEN << "speaker" >> ELSE << >>)
    \o (IF Truthy(entities.parties) /\ Len(entities.parties.items) > 0
        THEN << "speaker_group" >> ELSE << >>)
    \o (IF Truthy(entities.dateRange) THEN << "date" >> ELSE << >>)

\* mutant: the catch of the metadata query rethrows
applyStructuredFilterRethrows ==
    /\ pc = "filter"
    /\ \/ /\ Len(Conditions(plan.entities)) = 0
          /\ candidateIds' = << >>
          /\ filterLog' = Append(filterLog,
                [sub |-> idx, queried |-> FALSE, failed |-> FALSE, ids |-> << >>])
          /\ calls' = calls
          /\ pc' = "query" /\ err' = err
       \/ /\ Len(Conditions(plan.entities)) > 0
          /\ \E ids \in FilterRows :
                /\ candidateIds' = ids
                /\ filterLog' = Append(filterLog,
                      [sub |-> idx, queried |-> TRUE, failed |-> FALSE, ids |-> ids])
          /\ calls' = [calls EXCEPT !.filter = @ + 1]
          /\ pc' = "query" /\ err' = err
       \/ /\ Len(Conditions(plan.entities)) > 0
          /\ candidateIds' = candidateIds
          /\ filterLog' = Append(filterLog,
                [sub |-> idx, queried |-> TRUE, failed |-> TRUE, ids |-> << >>])
          /\ calls' = [calls EXCEPT !.filter = @ + 1]
          /\ pc' = "error" /\ err' = "FilterError"
    /\ UNCHANGED << question, topK, response, plan, idx, expandedQuery, allResults,
                    subResults, uniqueResults, answer, queries >>

applyStructuredFilter ==
    /\ pc = "filter"
    /\ \/ /\ Len(Conditions(plan.entities)) = 0      \* return []; no query
          /\ candidateIds' = << >>
          /\ filterLog' = Append(filterLog,
                [sub |-> idx, queried |-> FALSE, failed |-> FALSE, ids |-> << >>])
          /\ calls' = calls
       \/ /\ Len(Conditions(plan.entities)) > 0      \* the query answers
          /\ \E ids \in FilterRows :
                /\ candidateIds' = ids
                /\ filterLog' = Append(filterLog,
                      [sub |-> idx, queried |-> TRUE, failed |-> FALSE, ids |-> ids])
          /\ calls' = [calls EXCEPT !.filter = @ + 1]
       \/ /\ Len(Conditions(plan.entities)) > 0      \* the query fails: catch, return []
          /\ candidateIds' = << >>
          /\ filterLog' = Append(filterLog,
                [sub |-> idx, queried |-> TRUE, failed |-> TRUE, ids |-> << >>])
          /\ calls' = [calls EXCEPT !.filter = @ + 1]
    /\ pc' = "query"
    /\ UNCHANGED << question, topK, response, plan, idx, expandedQuery, allResults,
                    subResults, uniqueResults, answer, queries, err >>

(***************************************************************************)
(* 3. Similarity search: the for-of loop of searchWithPlan.                *)
(***************************************************************************)
\* embedding <=> $1 < 0.8 : structured filter + vector search
CeilingRestricted == 80
\* embedding <=> $1 < 0.6 : fallback, vector search only
CeilingFallback == 60
\* embedding <=> $1 < 0.7 : vector search only
CeilingDefault == 70

\* array.includes(x)
Includes(arr, x) == \E k \in DOMAIN arr.items : arr.items[k] = x

\* mutant: an empty candidate list restricts the search to no id at all
QueryModeRestrictToEmpty(enabledStrategies, ids) ==
    IF Includes(enabledStrategies, "structured")
    THEN [restricted |-> TRUE, ids |-> ids, ceiling |-> CeilingRestricted]
    ELSE [restricted |-> FALSE, ids |-> << >>, ceiling |-> CeilingDefault]

\* the searchQuery / queryParams chosen for one sub-query
QueryMode(enabledStrategies, ids) ==
    IF Includes(enabledStrategies, "structured")
    THEN IF Len(ids) > 0
         THEN [restricted |-> TRUE, ids |-> ids, ceiling |-> CeilingRestricted]
         ELSE [restricted |-> FALSE, ids |-> << >>, ceiling |-> CeilingFallback]
    ELSE [restricted |-> FALSE, ids |-> << >>, ceiling |-> CeilingDefault]

\* x || d for a nullable text column
OrText(x, d) == IF x = Null \/ x = "" THEN d ELSE x

\* a DatabaseRow as a SpeechResult; parseFloat(similarity_score) || 0.0 keeps a number
ToSpeechResult(r) ==
    [speechId |-> r.row.speech_id,
     speaker |-> OrText(r.row.speaker, "unknown speaker"),
     party |-> OrText(r.row.speaker_group, "?"),
     date |-> OrText(r.row.date, "2024-01-01"),
     meeting |-> OrText(r.row.meeting_name, "?"),
     content |-> OrText(r.row.speech_text, ""),
     url |-> OrText(r.row.speech_url, ""),
     score |-> r.similarity_score]

\* the search ends with the error rethrown by the catch of searchWithPlan
Rethrow(e) ==
    /\ pc' = "error"
    /\ err' = e

\* for (const subquery of plan.subqueries): next element, or the end of the loop
forOfSubqueries ==
    /\ pc = "loop"
    /\ \/ /\ plan.subqueries.tag \notin {"arr", "str"}    \* not iterable
          /\ Rethrow("SearchTypeError")
          /\ UNCHANGED << idx, expandedQuery >>
       \/ /\ plan.subqueries.tag \in {"arr", "str"}
          /\ idx < Len(plan.subqueries.items)
          /\ idx' = idx + 1
          /\ expandedQuery' =
                IF Truthy(plan.entities.topics) /\ Len(plan.entities.topics.items) > 0
                THEN << plan.subqueries.items[idx + 1] >> \o plan.entities.topics.items
                ELSE << plan.subqueries.items[idx + 1] >>
          /\ pc' = "embed"
          /\ err' = err
       \/ /\ plan.subqueries.tag \in {"arr", "str"}
          /\ idx = Len(plan.subqueries.items)
          /\ pc' = "aggregate"
          /\ UNCHANGED << idx, expandedQuery, err >>
    /\ UNCHANGED << question, topK, response, plan, candidateIds, allResults, subResults,
                    uniqueResults, answer, calls, filterLog, queries >>

\* await Settings.embedModel.getTextEmbedding(expandedQuery)
getTextEmbedding ==
    /\ pc = "embed"
    /\ calls' = [calls EXCEPT !.embed = @ + 1]
    /\ \/ /\ pc' = IF Includes(plan.enabledStrategies, "structured")
                   THEN "filter" ELSE "query"
          /\ err' = err
       \/ Rethrow("EmbeddingError")
    /\ candidateIds' = << >>
    /\ UNCHANGED << question, topK, response, plan, idx, expandedQuery, allResults,
                    subResults, uniqueResults, answer, filterLog, queries >>

\* await this.dbPool.query(searchQuery, queryParams), the row mapping and the concat
similaritySearch ==
    /\ pc = "query"
    /\ calls' = [calls EXCEPT !.similarity = @ + 1]
    /\ queries' = Append(queries,
            [sub |-> idx, mode |-> QueryMode(plan.enabledStrategies, candidateIds),
             limit |-> topK])
    /\ \/ /\ \E dist \in [SpeechIds -> Distances] :
               \E rows \in SimilarityRows(dist,
                              QueryMode(plan.enabledStrategies, candidateIds), topK) :
                   LET subqueryResults == [k \in DOMAIN rows |-> ToSpeechResult(rows[k])]
                   IN  /\ allResults' = allResults \o subqueryResults
                       /\ subResults' = Append(subResults, subqueryResults)
          /\ pc' = "loop"
          /\ err' = err
       \/ /\ Rethrow("SimilarityError")
          /\ UNCHANGED << allResults, subResults >>
    /\ UNCHANGED << question, topK, response, plan, idx, expandedQuery, candidateIds,
                    uniqueResults, answer, filterLog >>

(***************************************************************************)
(* 4. Aggregation: Array.from(new Map(...).values()).sort(...).slice(...)  *)
(***************************************************************************)
\* map.set(r.speechId, r) on the insertion-ordered entries of a Map: a known key
\* keeps its place and takes the new value, a new key goes last
MapSet(m, r) ==
    IF \E k \in DOMAIN m : m[k].speechId = r.speechId
    THEN [k \in DOMAIN m |-> IF m[k].speechId = r.speechId THEN r ELSE m[k]]
    ELSE Append(m, r)

RECURSIVE MapValues(_)
\* Array.from(new Map(results.map((r) => [r.speechId, r])).values())
MapValues(results) ==
    IF results = << >> THEN << >>
    ELSE MapSet(MapValues(SubSeq(results, 1, Len(results) - 1)), results[Len(results)])

\* r put into a list sorted by (a, b) => b.score - a.score, behind its equals
InsertByScore(sorted, r) ==
    LET before == { k \in DOMAIN sorted : sorted[k].score >= r.score }
        n == Cardinality(before)
    IN  SubSeq(sorted, 1, n) \o << r >> \o SubSeq(sorted, n + 1, Len(sorted))

RECURSIVE SortByScore(_)
\* results.sort((a, b) => b.score - a.score) : a stable sort
SortByScore(results) ==
    IF results = << >> THEN << >>
    ELSE InsertByScore(SortByScore(SubSeq(results, 1, Len(results) - 1)),
                       results[Len(results)])

\* array.slice(0, n), n >= 0
Slice(results, n) == SubSeq(results, 1, Min(n, Len(results)))

\* mutant: the Map that removes the duplicates is left out
UniqueResultsNoDedupe(results, k) == Slice(SortByScore(results), k)

\* the uniqueResults of searchWithPlan
UniqueResults(results, k) == Slice(SortByScore(MapValues(results)), k)

\* searchWithPlan returns; main stops on an empty list
aggregate ==
    /\ pc = "aggregate"
    /\ uniqueResults' = UniqueResults(allResults, topK)
    /\ pc' = IF Len(UniqueResults(allResults, topK)) = 0 THEN "noresults" ELSE "answer"
    /\ UNCHANGED << question, topK, response, plan, idx, expandedQuery, candidateIds,
                    allResults, subResults, answer, calls, filterLog, queries, err >>

(***************************************************************************)
(* 5. Answer synthesis: generateAnswer.  A text is a sequence of blocks    *)
(* (joined by blank lines), a block a sequence of lines, a line a          *)
(* sequence of string pieces.                                              *)
(***************************************************************************)
\* content.substring(0, 300)
SnippetLength == 300

\* length of the speech texts of the corpus
ContentLength(c) == IF c = "long" THEN 450 ELSE IF c = "short" THEN 120 ELSE 0

\* c.substring(0, n)
Substring(c, n) == IF ContentLength(c) <= n THEN c ELSE "long[0:300]"

\* one numbered entry of the fallback answer
FallbackEntry(result, index) ==
    << << ToString(index + 1), ". ", result.speaker, " (", result.party, ")" >>,
       << "   date: ", result.date >>,
       << "   meeting: ", result.meeting >>,
       << "   content: ", Substring(result.content, SnippetLength), "..." >>,
       << "   source: ", result.url >>,
       << "   score: ", ToString(result.score) >> >>

\* mutant: the entries are given without their source line
FallbackAnswerNoSource(results) ==
    << << << "Information based on the search results:" >> >> >>
    \o [k \in DOMAIN results |-> SubSeq(FallbackEntry(results[k], k - 1), 1, 4)]

\* the string returned by the catch of generateAnswer
FallbackAnswer(results) ==
    << << << "Information based on the search results:" >> >> >>
    \o [k \in DOMAIN results |-> FallbackEntry(results[k], k - 1)]

\* the texts the completion service may answer with ("" included)
CompletionTexts == { << >>, << << << "generated answer" >> >> >> }

generateAnswer ==
    /\ pc = "answer"
    /\ calls' = [calls EXCEPT !.llm = @ + 1]
    /\ \/ /\ \E text \in CompletionTexts : answer' = text
          /\ err' = err
       \/ /\ answer' = FallbackAnswer(uniqueResults)      \* catch: logged, not rethrown
          /\ err' = "GenerationError"
    /\ pc' = "done"
    /\ UNCHANGED << question, topK, response, plan, idx, expandedQuery, candidateIds,
                    allResults, subResults, uniqueResults, filterLog, queries >>

(***************************************************************************)
(* main(): search(query) = planKokkaiQuery then searchWithPlan, then       *)
(* generateAnswer unless the result list is empty.                         *)
(***************************************************************************)
Init == InitWith(PipelineResponses)

Next ==
    \/ planKokkaiQuery
    \/ forOfSubqueries
    \/ getTextEmbedding
    \/ applyStructuredFilter
    \/ similaritySearch
    \/ aggregate
    \/ generateAnswer

Spec == Init /\ [][Next]_vars

(***************************************************************************)
(* Properties.                                                             *)
(***************************************************************************)
\* searchWithPlan has returned its list
Returned == pc \in {"answer", "noresults", "done"}

\* the scores the sub-queries returned for a speech id
ScoresOf(id) == { allResults[k].score : k \in { j \in DOMAIN allResults : allResults[j].speechId = id } }

\* the positions of a speech id in the returned list
EntriesOf(id) == { k \in DOMAIN uniqueResults : uniqueResults[k].speechId = id }

\* the speech ids the sub-queries returned
ReturnedIds == { allResults[k].speechId : k \in DOMAIN allResults }

RECURSIVE Flatten(_)
\* the concatenation of a sequence of lists
Flatten(lists) ==
    IF lists = << >> THEN << >>
    ELSE Flatten(SubSeq(lists, 1, Len(lists) - 1)) \o lists[Len(lists)]

\* C1: a speech id returned with different scores has at most one entry in the
\* returned list, that entry carries the highest of its scores, and the entry is
\* there whenever topK does not cut the list.
HighestScoreWins ==
    Returned =>
        \A id \in SpeechIds :
            Cardinality(ScoresOf(id)) > 1 =>
                /\ Cardinality(EntriesOf(id)) <= 1
                /\ Cardinality(ReturnedIds) <= topK => Cardinality(EntriesOf(id)) = 1
                /\ \A k \in EntriesOf(id) : \A sc \in ScoresOf(id) : uniqueResults[k].score >= sc

\* C2: the returned list is the same for every order in which the sub-query
\* result lists are appended to allResults.
MergeOrderIndependent ==
    Returned =>
        \A p \in Perms(DOMAIN subResults) :
            UniqueResults(Flatten([k \in DOMAIN subResults |-> subResults[p[k]]]), topK)
                = uniqueResults

\* C3: a failed embedding request or similarity query of one sub-query never
\* makes searchWithPlan fail.
SubqueryFailureAbsorbed ==
    ~(pc = "error" /\ err \in {"EmbeddingError", "SimilarityError"})

\* C4: when the planner's completion text is not valid JSON the run ends with an
\* error raised by the planner, and no embedding request, no structured-filter query, no
\* similarity query and no answer-synthesis completion is ever issued.
InvalidPlanMakesNoCalls ==
    response.kind = "invalid" =>
        /\ pc \in {"plan", "error"}
        /\ pc = "error" => err \in {"PlanParseError", "CompletionError"}
        /\ calls.embed = 0 /\ calls.filter = 0 /\ calls.similarity = 0
        /\ calls.llm <= 1
        /\ answer = << >>

InvalidPlanWitness ==
    response.kind = "invalid" /\ pc = "error" /\ err = "PlanParseError" /\ calls.llm = 1

\* C5: when the completion request of generateAnswer fails, generateAnswer still
\* returns: a non-empty answer with one entry per result, in the order of the
\* result list, each entry holding its result's url.
SynthesisFailsSoft ==
    err = "GenerationError" =>
        /\ pc = "done"
        /\ answer # << >>
        /\ Len(answer) = 1 + Len(uniqueResults)
        /\ \A k \in DOMAIN uniqueResults :
              \E l \in DOMAIN answer[k + 1] :
                  answer[k + 1][l] = << "   source: ", uniqueResults[k].url >>

SynthesisFailsSoftWitness ==
    /\ err = "GenerationError"
    /\ Len(uniqueResults) = 2
    /\ uniqueResults[1].url # uniqueResults[2].url

\* C6: the similarity query of every sub-query is decided by (structured enabled,
\* candidate ids): restricted to the ids with ceiling 0.8, unrestricted with 0.6
\* when the id list is empty, unrestricted with 0.7 and no filter call at all
\* when structured is not enabled.
ModeByStrategyAndCandidates ==
    \A k \in DOMAIN queries :
        IF Includes(plan.enabledStrategies, "structured")
        THEN /\ k \in DOMAIN filterLog
             /\ filterLog[k].sub = queries[k].sub
             /\ IF filterLog[k].ids # << >>
                THEN queries[k].mode = [restricted |-> TRUE, ids |-> filterLog[k].ids,
                                        ceiling |-> CeilingRestricted]
                ELSE queries[k].mode = [restricted |-> FALSE, ids |-> << >>,
                                        ceiling |-> CeilingFallback]
        ELSE /\ queries[k].mode = [restricted |-> FALSE, ids |-> << >>,
                                   ceiling |-> CeilingDefault]
             /\ filterLog = << >>
             /\ calls.filter = 0

ModeByStrategyWitness ==
    /\ Len(queries) = 2
    /\ queries[1].mode.restricted
    /\ ~queries[2].mode.restricted
    /\ queries[2].mode.ceiling = CeilingFallback
    /\ Returned

\* C7: every plan the planner returns has between 1 and 3 sub-queries, and is
\* the singleton of the question when the response gives none.
PlanHasOneToThreeSubqueries ==
    pc = "loop" =>
        /\ plan.subqueries.tag = "arr"
        /\ Len(plan.subqueries.items) \in 1..3
        /\ (response.subqueries.tag = "undefined" \/ response.subqueries.items = << >>)
              => plan.subqueries = JArr(<< question >>)

\* C8: the returned list has no two entries with one speechId, is sorted by
\* score in non-increasing order and has at most topK entries.
ReturnedListWellFormed ==
    Returned =>
        /\ \A a, b \in DOMAIN uniqueResults :
              a # b => uniqueResults[a].speechId # uniqueResults[b].speechId
        /\ \A a, b \in DOMAIN uniqueResults :
              a < b => uniqueResults[a].score >= uniqueResults[b].score
        /\ Len(uniqueResults) <= topK

ReturnedListWitness ==
    /\ Returned
    /\ Len(allResults) > Cardinality(ReturnedIds)
    /\ Cardinality(ReturnedIds) > topK
    /\ Len(uniqueResults) = topK

\* C9: a failed metadata query makes applyStructuredFilter return the empty list
\* without raising; the sub-query then runs the unrestricted similarity search
\* with ceiling 0.6.
FilterFailureDegrades ==
    \A k \in DOMAIN filterLog :
        filterLog[k].failed =>
            /\ filterLog[k].ids = << >>
            /\ k \notin DOMAIN queries => (pc = "query" /\ candidateIds = << >>)
            /\ k \in DOMAIN queries =>
                  queries[k].mode = [restricted |-> FALSE, ids |-> << >>,
                                     ceiling |-> CeilingFallback]

FilterFailureWitness ==
    /\ \E k \in DOMAIN filterLog : filterLog[k].failed /\ k \in DOMAIN queries
    /\ pc = "answer"

\* C10: every response that parses as JSON gives a plan with the defaults
\* applied; the planner raises on a JSON syntax error only.
OnlySyntaxErrorIsFatal ==
    (pc # "plan" /\ err # "CompletionError"
        /\ response.kind \in {"null", "scalar", "object"}) =>
        /\ pc = "loop"
        /\ plan.subqueries.tag = "arr"
        /\ plan.enabledStrategies.tag = "arr"
        /\ plan.confidence.tag = "num"
        /\ plan.estimatedComplexity.tag = "num"

====
